---- MODULE Spec2Model ----
(***************************************************************************)
(* tf_mushroom.py: prepare_data (clean, label-encode, one-hot encode,      *)
(* split, emit) followed by the loading of the two emitted files in        *)
(* __main__.  One action per statement of the script; the data frame is a  *)
(* sequence of rows that keep their pandas index.                          *)
(***************************************************************************)
EXTENDS Integers, Sequences, FiniteSets, TLC

\* Largest number of lines of the raw input file.
MaxRows == 2

\* The label column and the first feature columns of the header list
\* (tf_mushroom.py:24-31 names 23 columns; the model keeps the first three).
header == <<"class", "cap_shape", "cap_surface">>

\* header[1:], as positions in header.
cols_to_transform == 2..Len(header)

\* Field values a raw file may hold in the label column and in a feature column:
\* the two classes and a value that is neither; two categories, the missing-value
\* sentinel and the empty field.
LabelVals == {"p", "e", "x"}
FeatVals  == {"f", "s", "?", ""}

\* Every field value of the model, the five-line files' third category included.
AllVals == LabelVals \cup FeatVals \cup {"y"}

\* Code points of the field values: the order pandas sorts categories in.
Ord == [s \in AllVals |->
          CASE s = ""  -> 0
            [] s = "?" -> 63
            [] s = "e" -> 101
            [] s = "f" -> 102
            [] s = "p" -> 112
            [] s = "s" -> 115
            [] s = "x" -> 120
            [] s = "y" -> 121]

\* Strings pandas.read_csv reads as a missing value by default (na_values is
\* not passed and keep_default_na is left True); the empty field is the one
\* of them the model's alphabet holds.
DefaultNA == {"", "NA", "N/A", "NULL", "NaN", "nan", "null", "n/a", "#N/A"}

\* --------------------------------------------------------------- cells
\* A cell of the data frame: a string, an integer or NaN.
StrCell(s) == [k |-> "str", s |-> s, i |-> 0]
IntCell(n) == [k |-> "int", s |-> "", i |-> n]
NaN        == [k |-> "nan", s |-> "", i |-> 0]

\* --------------------------------------------------------------- numbers as text
Digit(d) == CASE d = 0 -> "0" [] d = 1 -> "1" [] d = 2 -> "2" [] d = 3 -> "3"
              [] d = 4 -> "4" [] d = 5 -> "5" [] d = 6 -> "6" [] d = 7 -> "7"
              [] d = 8 -> "8" [] d = 9 -> "9"

RECURSIVE str(_)
\* str(n) of a non-negative int.
str(n) == IF n < 10 THEN Digit(n) ELSE str(n \div 10) \o Digit(n % 10)

\* The ints whose decimal text the model can meet.
Ints == 0..20

\* int(s): defined for decimal text only (ValueError otherwise).
IsInt(s) == \E n \in Ints : str(n) = s
int(s)   == CHOOSE n \in Ints : str(n) = s

\* --------------------------------------------------------------- sequences
RECURSIVE Sorted(_)
\* The strings of S in increasing order.
Sorted(S) ==
    IF S = {} THEN <<>>
    ELSE LET m == CHOOSE x \in S : \A y \in S : Ord[x] <= Ord[y]
         IN  <<m>> \o Sorted(S \ {m})

RECURSIVE Flatten(_)
Flatten(ss) == IF ss = <<>> THEN <<>> ELSE Head(ss) \o Flatten(Tail(ss))

\* --------------------------------------------------------------- read, clean
\* pd.read_csv(data_file_name, sep=',', names=header): one row per line, the
\* index is the line number from 0, a default missing-value string is NaN.
read_csv(f) ==
    [i \in 1..Len(f) |->
        [idx |-> i - 1,
         row |-> [c \in 1..Len(header) |->
                     IF f[i][c] \in DefaultNA THEN NaN ELSE StrCell(f[i][c])]]]

\* df.replace('?', np.nan, inplace=True): every cell of every column.
replace_sentinel(d) ==
    [i \in 1..Len(d) |->
        [d[i] EXCEPT !.row = [c \in 1..Len(d[i].row) |->
                                 IF d[i].row[c] = StrCell("?") THEN NaN
                                 ELSE d[i].row[c]]]]

\* dropna(how='all') in place of the default: only a row of nothing but NaN.
HasNaN_in_every_cell(r) == \A c \in 1..Len(r.row) : r.row[c] = NaN

HasNaN(r) == \E c \in 1..Len(r.row) : r.row[c] = NaN

RECURSIVE dropna(_)
\* df.dropna(inplace=True): drop every row holding a NaN, keep index and order.
dropna(d) ==
    IF d = <<>> THEN <<>>
    ELSE IF HasNaN(Head(d)) THEN dropna(Tail(d))
         ELSE <<Head(d)>> \o dropna(Tail(d))

\* --------------------------------------------------------------- label encode
\* A binary encoding of the class, (class == 'e') as an int, in place of the
\* second replace: every label left that is not 'e' becomes 0.
replace_class_or_zero(d, old, new) ==
    [i \in 1..Len(d) |->
        [d[i] EXCEPT !.row[1] = IF @ = StrCell(old) THEN IntCell(new)
                                ELSE IF old = "e" /\ @.k = "str" THEN IntCell(0)
                                ELSE @]]

\* df['class'].replace(old, new, inplace=True): only the class column, only the
\* cells equal to old.
replace_class(d, old, new) ==
    [i \in 1..Len(d) |->
        [d[i] EXCEPT !.row[1] = IF @ = StrCell(old) THEN IntCell(new) ELSE @]]

\* --------------------------------------------------------------- feature encode
\* A column label: a column of the header, or the indicator of one of its values.
PlainCol(name)   == [col |-> name, dummy |-> FALSE, val |-> ""]
DummyCol(name, v) == [col |-> name, dummy |-> TRUE, val |-> v]

\* The text of a column label: get_dummies names an indicator prefix_value.
ColName(c) == IF c.dummy THEN c.col \o "_" \o c.val ELSE c.col

\* The distinct values of column c of d.
Levels(d, c) == {d[i].row[c].s : i \in 1..Len(d)}

\* get_dummies(drop_first=True): no indicator for the first level.
DummiesOf_drop_first(d, c) ==
    LET lv == Sorted(Levels(d, c))
    IN  [j \in 1..Len(lv) - 1 |-> DummyCol(header[c], lv[j + 1])]

\* The indicator columns of column c: one per level, levels sorted.
DummiesOf(d, c) ==
    LET lv == Sorted(Levels(d, c))
    IN  [j \in 1..Len(lv) |-> DummyCol(header[c], lv[j])]

\* Columns of pd.get_dummies(df, columns=cols_to_transform): the columns not
\* transformed first, then the indicators of each transformed column in turn.
dummy_columns(d) ==
    <<PlainCol(header[1])>>
      \o Flatten([j \in 1..Len(header) - 1 |-> DummiesOf(d, j + 1)])

\* Position in header of the column a label comes from.
HeaderPos(c) == CHOOSE p \in 1..Len(header) : header[p] = c.col

\* Rows of pd.get_dummies(df, columns=cols_to_transform).
get_dummies(d) ==
    LET cs == dummy_columns(d)
    IN  [i \in 1..Len(d) |->
            [d[i] EXCEPT !.row =
                [j \in 1..Len(cs) |->
                    IF cs[j].dummy
                    THEN IF d[i].row[HeaderPos(cs[j])] = StrCell(cs[j].val)
                         THEN IntCell(1) ELSE IntCell(0)
                    ELSE d[i].row[HeaderPos(cs[j])]]]]

\* --------------------------------------------------------------- split
\* floor in place of ceil.
n_test_floor(n) == n \div 10

\* train_test_split(df, test_size=0.1): n_test = ceil(0.1 * n_samples).
n_test_of(n) == (n + 9) \div 10

\* train_size is None: n_train = n_samples - n_test.
n_train_of(n) == n - n_test_of(n)

\* ind_test = permutation[:n_test]
ind_test(perm, n) == SubSeq(perm, 1, n_test_of(n))

\* permutation[:n_train]: the train rows taken from the start as well.
ind_train_from_start(perm, n) == SubSeq(perm, 1, n_train_of(n))

\* ind_train = permutation[n_test:(n_test + n_train)]
ind_train(perm, n) == SubSeq(perm, n_test_of(n) + 1, n_test_of(n) + n_train_of(n))

\* safe_indexing(df, indices): the rows at the given positions, in that order.
take(d, ind) == [j \in 1..Len(ind) |-> d[ind[j]]]

\* --------------------------------------------------------------- state
VARIABLES
    pc,                  \* the statement the script is at
    file,                \* the lines of agaricus-lepiota.data, each a tuple of fields
    fs,                  \* the working directory: file name -> file
    df,                  \* the data frame
    columns,             \* df.columns
    df_train, df_test,
    num_train_entries, num_train_features,
    num_test_entries, num_test_features,
    training_set, test_set

vars == <<pc, file, fs, df, columns, df_train, df_test,
          num_train_entries, num_train_features,
          num_test_entries, num_test_features, training_set, test_set>>

\* --------------------------------------------------------------- emit
\* A file of the working directory: absent, or its lines, each a tuple of the
\* comma-separated fields.
Absent        == [exists |-> FALSE, lines |-> <<>>]
Written(ls)   == [exists |-> TRUE, lines |-> ls]
Stale         == Written(<<<<"stale">>>>)

FileNames == {"train_temp.csv", "test_temp.csv", "train_output.csv", "test_output.csv"}

\* The text to_csv writes for a cell.
CellText(c) == IF c.k = "int" THEN str(c.i) ELSE c.s

\* df.to_csv(name, index=False): the column labels, then one line per row.
to_csv(d, cs) ==
    <<[j \in 1..Len(cs) |-> ColName(cs[j])]>>
      \o [i \in 1..Len(d) |-> [j \in 1..Len(d[i].row) |-> CellText(d[i].row[j])]]

\* The header line counted as an entry; the label counted as a feature.
num_entries_with_header(d)   == Len(d) + 1
num_features_with_label(cs)  == Len(cs)

\* df.shape[0] and df.shape[1] - 1 of a partition.
num_entries(d)   == Len(d)
num_features(cs) == Len(cs) - 1

\* str(entries) + "," + str(features) + "," + text: two more fields at the head
\* of the first line of text.
prefixed(entries, features, ls) ==
    IF ls = <<>> THEN <<<<str(entries), str(features), "">>>>
    ELSE <<<<str(entries), str(features)>> \o Head(ls)>> \o Tail(ls)

\* open(name, "w"): the file exists and is empty.
open_w(f, name) == [f EXCEPT ![name] = Written(<<>>)]

\* .write(text) on the file just opened, closed when the statement ends.
write(f, name, ls) == [f EXCEPT ![name] = Written(ls)]

\* The removal left out.
remove_nothing(f, name) == f

\* os.remove(name)
remove(f, name) == [f EXCEPT ![name] = Absent]

\* --------------------------------------------------------------- load
\* load_csv_with_header(filename, target_dtype=np.int, features_dtype=np.int,
\* target_column=0) reads the counts from the first line, then one row per line:
\* it fails on a missing file, on text that is no int, on more lines than
\* announced and on a line whose length is not the announced one.
load_ok(f) ==
    /\ f.exists
    /\ Len(f.lines) >= 1
    /\ Len(f.lines[1]) >= 2
    /\ IsInt(f.lines[1][1]) /\ IsInt(f.lines[1][2])
    /\ Len(f.lines) - 1 <= int(f.lines[1][1])
    /\ \A i \in 2..Len(f.lines) :
          /\ Len(f.lines[i]) = int(f.lines[1][2]) + 1
          /\ \A j \in 1..Len(f.lines[i]) : IsInt(f.lines[i][j])

NotLoaded == [target |-> <<>>, data |-> <<>>]

load_csv_with_header(f) ==
    LET n_samples  == int(f.lines[1][1])
        n_features == int(f.lines[1][2])
    IN  [target |-> [i \in 1..n_samples |->
                        IF i + 1 <= Len(f.lines) THEN int(f.lines[i + 1][1]) ELSE 0],
         data   |-> [i \in 1..n_samples |->
                        [j \in 1..n_features |->
                            IF i + 1 <= Len(f.lines) THEN int(f.lines[i + 1][j + 1])
                            ELSE 0]]]

\* --------------------------------------------------------------- inputs
\* A line of the raw file: a label field and one field per feature column.
RawRow == {r \in [1..Len(header) -> LabelVals \cup FeatVals] :
              /\ r[1] \in LabelVals
              /\ \A c \in cols_to_transform : r[c] \in FeatVals}

Files == UNION {[1..k -> RawRow] : k \in 0..MaxRows}

\* The working directory before the run: empty, or holding files of an earlier run.
Directories == {[n \in FileNames |-> Absent], [n \in FileNames |-> Stale]}

StartWith(f, dir) ==
    /\ pc = "read_csv"
    /\ file = f
    /\ fs = dir
    /\ df = <<>>
    /\ columns = <<>>
    /\ df_train = <<>>
    /\ df_test = <<>>
    /\ num_train_entries = 0
    /\ num_train_features = 0
    /\ num_test_entries = 0
    /\ num_test_features = 0
    /\ training_set = NotLoaded
    /\ test_set = NotLoaded

\* Five-line files: one line holds the sentinel, the others are drawn from
\* three complete lines and one with an empty field.
SentinelRows == {<<"e", "?", "s">>, <<"p", "f", "?">>}
OtherRows    == {<<"p", "s", "f">>, <<"e", "f", "s">>, <<"x", "y", "y">>,
                 <<"e", "", "f">>}

FiveLineFiles ==
    {f \in [1..5 -> SentinelRows \cup OtherRows] :
        \E i \in 1..5 : /\ f[i] \in SentinelRows
                         /\ \A j \in (1..5) \ {i} : f[j] \in OtherRows}

Init == \E f \in Files \cup FiveLineFiles, dir \in Directories : StartWith(f, dir)

\* --------------------------------------------------------------- prepare_data
\* read_csv raises EmptyDataError on a file with no line.
ReadCsv ==
    /\ pc = "read_csv"
    /\ IF file = <<>>
       THEN /\ pc' = "read_raised"
            /\ UNCHANGED <<df, columns>>
       ELSE /\ df' = read_csv(file)
            /\ columns' = [j \in 1..Len(header) |-> PlainCol(header[j])]
            /\ pc' = "replace_sentinel"
    /\ UNCHANGED <<file, fs, df_train, df_test, num_train_entries,
                   num_train_features, num_test_entries, num_test_features,
                   training_set, test_set>>

ReplaceSentinel ==
    /\ pc = "replace_sentinel"
    /\ df' = replace_sentinel(df)
    /\ pc' = "dropna"
    /\ UNCHANGED <<file, fs, columns, df_train, df_test, num_train_entries,
                   num_train_features, num_test_entries, num_test_features,
                   training_set, test_set>>

DropNa ==
    /\ pc = "dropna"
    /\ df' = dropna(df)
    /\ pc' = "replace_p"
    /\ UNCHANGED <<file, fs, columns, df_train, df_test, num_train_entries,
                   num_train_features, num_test_entries, num_test_features,
                   training_set, test_set>>

ReplaceP ==
    /\ pc = "replace_p"
    /\ df' = replace_class(df, "p", 0)
    /\ pc' = "replace_e"
    /\ UNCHANGED <<file, fs, columns, df_train, df_test, num_train_entries,
                   num_train_features, num_test_entries, num_test_features,
                   training_set, test_set>>

ReplaceE ==
    /\ pc = "replace_e"
    /\ df' = replace_class(df, "e", 1)
    /\ pc' = "get_dummies"
    /\ UNCHANGED <<file, fs, columns, df_train, df_test, num_train_entries,
                   num_train_features, num_test_entries, num_test_features,
                   training_set, test_set>>

GetDummies ==
    /\ pc = "get_dummies"
    /\ df' = get_dummies(df)
    /\ columns' = dummy_columns(df)
    /\ pc' = "train_test_split"
    /\ UNCHANGED <<file, fs, df_train, df_test, num_train_entries,
                   num_train_features, num_test_entries, num_test_features,
                   training_set, test_set>>

\* The shuffle is any permutation of the rows.  A split that leaves the train
\* set empty raises ValueError in the scikit-learn releases that check for it
\* and returns the empty frame in those that do not; the script pins neither.
TrainTestSplit ==
    /\ pc = "train_test_split"
    /\ \E perm \in Permutations(1..Len(df)), rejects_empty \in BOOLEAN :
          IF n_train_of(Len(df)) = 0 /\ rejects_empty
          THEN /\ pc' = "split_raised"
               /\ UNCHANGED <<df_train, df_test>>
          ELSE /\ df_train' = take(df, ind_train(perm, Len(df)))
               /\ df_test' = take(df, ind_test(perm, Len(df)))
               /\ pc' = "shape"
    /\ UNCHANGED <<file, fs, df, columns, num_train_entries,
                   num_train_features, num_test_entries, num_test_features,
                   training_set, test_set>>

Shape ==
    /\ pc = "shape"
    /\ num_train_entries' = num_entries(df_train)
    /\ num_train_features' = num_features(columns)
    /\ num_test_entries' = num_entries(df_test)
    /\ num_test_features' = num_features(columns)
    /\ pc' = "to_csv_train"
    /\ UNCHANGED <<file, fs, df, columns, df_train, df_test,
                   training_set, test_set>>

ToCsvTrain ==
    /\ pc = "to_csv_train"
    /\ fs' = write(fs, "train_temp.csv", to_csv(df_train, columns))
    /\ pc' = "to_csv_test"
    /\ UNCHANGED <<file, df, columns, df_train, df_test, num_train_entries,
                   num_train_features, num_test_entries, num_test_features,
                   training_set, test_set>>

ToCsvTest ==
    /\ pc = "to_csv_test"
    /\ fs' = write(fs, "test_temp.csv", to_csv(df_test, columns))
    /\ pc' = "open_train_output"
    /\ UNCHANGED <<file, df, columns, df_train, df_test, num_train_entries,
                   num_train_features, num_test_entries, num_test_features,
                   training_set, test_set>>

\* open("train_output.csv", "w") is evaluated before the argument of .write.
OpenTrainOutput ==
    /\ pc = "open_train_output"
    /\ fs' = open_w(fs, "train_output.csv")
    /\ pc' = "write_train_output"
    /\ UNCHANGED <<file, df, columns, df_train, df_test, num_train_entries,
                   num_train_features, num_test_entries, num_test_features,
                   training_set, test_set>>

WriteTrainOutput ==
    /\ pc = "write_train_output"
    /\ IF fs["train_temp.csv"].exists
       THEN /\ fs' = write(fs, "train_output.csv",
                           prefixed(num_train_entries, num_train_features,
                                    fs["train_temp.csv"].lines))
            /\ pc' = "open_test_output"
       ELSE /\ pc' = "emit_raised"
            /\ UNCHANGED fs
    /\ UNCHANGED <<file, df, columns, df_train, df_test, num_train_entries,
                   num_train_features, num_test_entries, num_test_features,
                   training_set, test_set>>

OpenTestOutput ==
    /\ pc = "open_test_output"
    /\ fs' = open_w(fs, "test_output.csv")
    /\ pc' = "write_test_output"
    /\ UNCHANGED <<file, df, columns, df_train, df_test, num_train_entries,
                   num_train_features, num_test_entries, num_test_features,
                   training_set, test_set>>

WriteTestOutput ==
    /\ pc = "write_test_output"
    /\ IF fs["test_temp.csv"].exists
       THEN /\ fs' = write(fs, "test_output.csv",
                           prefixed(num_test_entries, num_test_features,
                                    fs["test_temp.csv"].lines))
            /\ pc' = "remove_train_temp"
       ELSE /\ pc' = "emit_raised"
            /\ UNCHANGED fs
    /\ UNCHANGED <<file, df, columns, df_train, df_test, num_train_entries,
                   num_train_features, num_test_entries, num_test_features,
                   training_set, test_set>>

RemoveTrainTemp ==
    /\ pc = "remove_train_temp"
    /\ IF fs["train_temp.csv"].exists
       THEN /\ fs' = remove(fs, "train_temp.csv")
            /\ pc' = "remove_test_temp"
       ELSE /\ pc' = "emit_raised"
            /\ UNCHANGED fs
    /\ UNCHANGED <<file, df, columns, df_train, df_test, num_train_entries,
                   num_train_features, num_test_entries, num_test_features,
                   training_set, test_set>>

\* The last statement of prepare_data: the script goes on to load the files.
RemoveTestTemp ==
    /\ pc = "remove_test_temp"
    /\ IF fs["test_temp.csv"].exists
       THEN /\ fs' = remove(fs, "test_temp.csv")
            /\ pc' = "load_train"
       ELSE /\ pc' = "emit_raised"
            /\ UNCHANGED fs
    /\ UNCHANGED <<file, df, columns, df_train, df_test, num_train_entries,
                   num_train_features, num_test_entries, num_test_features,
                   training_set, test_set>>

\* --------------------------------------------------------------- __main__
LoadTrain ==
    /\ pc = "load_train"
    /\ IF load_ok(fs["train_output.csv"])
       THEN /\ training_set' = load_csv_with_header(fs["train_output.csv"])
            /\ pc' = "load_test"
       ELSE /\ pc' = "load_raised"
            /\ UNCHANGED training_set
    /\ UNCHANGED <<file, fs, df, columns, df_train, df_test, num_train_entries,
                   num_train_features, num_test_entries, num_test_features,
                   test_set>>

\* After the second load the script builds and fits the classifier.
LoadTest ==
    /\ pc = "load_test"
    /\ IF load_ok(fs["test_output.csv"])
       THEN /\ test_set' = load_csv_with_header(fs["test_output.csv"])
            /\ pc' = "classifier"
       ELSE /\ pc' = "load_raised"
            /\ UNCHANGED test_set
    /\ UNCHANGED <<file, fs, df, columns, df_train, df_test, num_train_entries,
                   num_train_features, num_test_entries, num_test_features,
                   training_set>>

Next ==
    \/ ReadCsv
    \/ ReplaceSentinel
    \/ DropNa
    \/ ReplaceP
    \/ ReplaceE
    \/ GetDummies
    \/ TrainTestSplit
    \/ Shape
    \/ ToCsvTrain
    \/ ToCsvTest
    \/ OpenTrainOutput
    \/ WriteTrainOutput
    \/ OpenTestOutput
    \/ WriteTestOutput
    \/ RemoveTrainTemp
    \/ RemoveTestTemp
    \/ LoadTrain
    \/ LoadTest

Spec == Init /\ [][Next]_vars

\* =============================================================== properties
\* Program positions.
BeforeClean  == {"read_csv", "read_raised", "replace_sentinel", "dropna"}
BeforeLabel  == BeforeClean \cup {"replace_p", "replace_e"}
BeforeEncode == BeforeLabel \cup {"get_dummies"}
BeforeSplit  == BeforeEncode \cup {"train_test_split", "split_raised"}
\* prepare_data has returned.
Prepared     == pc \in {"load_train", "load_test", "classifier", "load_raised"}

\* A raw line holds one of the strings of S.
RowHas(r, S) == \E c \in 1..Len(r) : r[c] \in S

\* The pandas index values of the rows of d.
Index(d) == {d[i].idx : i \in 1..Len(d)}

\* The raw line a row of the data frame was read from.
RawOf(r) == file[r.idx + 1]

\* The label text the spec's mapping gives a raw label.
LabelText(l) == IF l = "p" THEN "0" ELSE IF l = "e" THEN "1" ELSE l

\* The file the emit step owes a partition.
Owed(d) == Written(prefixed(Len(d), Len(columns) - 1, to_csv(d, columns)))

\* --------------------------------------------------------------- C1
\* C1 as stated: after the clean step a raw line is in the data frame if and
\* only if none of its fields is '?', and the lines kept are unchanged.
C1_AsStated ==
    pc = "replace_p" =>
        /\ \A i \in 1..Len(file) :
              (i - 1) \in Index(df) <=> ~RowHas(file[i], {"?"})
        /\ \A j \in 1..Len(df) :
              df[j].row = [c \in 1..Len(header) |-> StrCell(RawOf(df[j])[c])]

\* C1 amended: after the clean step a raw line is in the data frame if and only
\* if none of its fields is '?' or a string read_csv reads as missing (such as
\* the empty field); it is there once, and its fields are unchanged.
C1_CleanKeepsExactlyCompleteRows ==
    pc = "replace_p" =>
        /\ Cardinality(Index(df)) = Len(df)
        /\ \A i \in 1..Len(file) :
              (i - 1) \in Index(df) <=> ~RowHas(file[i], {"?"} \cup DefaultNA)
        /\ \A j \in 1..Len(df) :
              df[j].row = [c \in 1..Len(header) |-> StrCell(RawOf(df[j])[c])]

C1_Witness ==
    /\ pc = "replace_p"
    /\ \E i, j \in 1..Len(file) :
          /\ RowHas(file[i], {"?"}) /\ (i - 1) \notin Index(df)
          /\ (j - 1) \in Index(df)

\* --------------------------------------------------------------- C2
\* C2: after the label-encode step every row of the data frame has label 0 or
\* 1, 0 where the raw label is 'p' and 1 where it is 'e'.
C2_LabelsAreBinary ==
    pc \notin BeforeLabel =>
        \A j \in 1..Len(df) :
            /\ df[j].row[1] \in {IntCell(0), IntCell(1)}
            /\ df[j].row[1] = IntCell(0) <=> RawOf(df[j])[1] = "p"
            /\ df[j].row[1] = IntCell(1) <=> RawOf(df[j])[1] = "e"

\* --------------------------------------------------------------- C3
\* C3: once prepare_data has returned, the first field of the first line of
\* each output file is the number of lines that follow it, which is the number
\* of rows of the partition the split produced.
C3_RowCountIsDataLines ==
    Prepared =>
        /\ fs["train_output.csv"].exists /\ fs["test_output.csv"].exists
        /\ IsInt(fs["train_output.csv"].lines[1][1])
        /\ IsInt(fs["test_output.csv"].lines[1][1])
        /\ int(fs["train_output.csv"].lines[1][1]) = Len(fs["train_output.csv"].lines) - 1
        /\ int(fs["test_output.csv"].lines[1][1]) = Len(fs["test_output.csv"].lines) - 1
        /\ int(fs["train_output.csv"].lines[1][1]) = Len(df_train)
        /\ int(fs["test_output.csv"].lines[1][1]) = Len(df_test)

C3_Witness ==
    /\ Prepared
    /\ Len(fs["train_output.csv"].lines) = 4
    /\ Len(fs["test_output.csv"].lines) = 2

\* --------------------------------------------------------------- C4
\* C4: after the split every row of the cleaned, encoded data frame is in
\* exactly one of the two partitions, whatever the shuffle: no index value is
\* in both, none is twice in one, and together they are the data frame's rows.
C4_SplitIsAPartition ==
    pc \notin BeforeSplit =>
        /\ Index(df_train) \cap Index(df_test) = {}
        /\ Index(df_train) \cup Index(df_test) = Index(df)
        /\ Cardinality(Index(df_train)) = Len(df_train)
        /\ Cardinality(Index(df_test)) = Len(df_test)
        /\ \A j \in 1..Len(df_train) : \E i \in 1..Len(df) : df_train[j] = df[i]
        /\ \A j \in 1..Len(df_test) : \E i \in 1..Len(df) : df_test[j] = df[i]
        /\ Index(df) = {i - 1 : i \in {k \in 1..Len(file) :
                                          ~RowHas(file[k], {"?"} \cup DefaultNA)}}

C4_Witness ==
    /\ pc = "shape"
    /\ Len(df_train) = 3
    /\ Len(df_test) = 1
    /\ df_test[1].idx < df_train[1].idx

\* --------------------------------------------------------------- C5
\* The values of header column c in the cleaned rows.
Observed(c) == {RawOf(df[j])[c] : j \in 1..Len(df)}

\* C5: after the feature-encode step the columns are the label column followed
\* by exactly one indicator column for each value observed in each feature
\* column of the cleaned rows (none for a value only dropped rows hold), and
\* in every row the indicators of a feature column are 1 for the row's value
\* of that column and 0 for every other value.
C5_OneIndicatorPerObservedValue ==
    pc = "train_test_split" =>
        /\ columns[1] = PlainCol(header[1])
        /\ \A j \in 2..Len(columns) : columns[j].dummy
        /\ \A c \in cols_to_transform, v \in AllVals :
              Cardinality({j \in 1..Len(columns) : columns[j] = DummyCol(header[c], v)})
                = IF v \in Observed(c) THEN 1 ELSE 0
        /\ Len(columns) - 1 =
              Cardinality({<<c, v>> \in cols_to_transform \X AllVals : v \in Observed(c)})
        /\ \A i \in 1..Len(df) :
              /\ Len(df[i].row) = Len(columns)
              /\ \A j \in 2..Len(columns) :
                    df[i].row[j] = IF columns[j].val = RawOf(df[i])[HeaderPos(columns[j])]
                                   THEN IntCell(1) ELSE IntCell(0)
              /\ \A c \in cols_to_transform :
                    Cardinality({j \in 2..Len(columns) :
                                    /\ columns[j].col = header[c]
                                    /\ df[i].row[j] = IntCell(1)}) = 1

\* Two feature columns of three observed values each: six indicators and the
\* label, while a dropped line held a value that got none.
C5_Witness ==
    /\ pc = "train_test_split"
    /\ Len(columns) = 7
    /\ \A c \in cols_to_transform : Cardinality(Observed(c)) = 3
    /\ \E i \in 1..Len(file) : file[i][3] = "?"

\* --------------------------------------------------------------- C6
\* The lines an output file must hold for partition d.
C6_FileOf(f, d) ==
    /\ f.exists
    /\ Len(f.lines) = Len(d) + 1
    /\ f.lines[1] = <<str(Len(d)), str(Len(columns) - 1)>>
                      \o [j \in 1..Len(columns) |-> ColName(columns[j])]
    /\ f.lines[1][3] = "class"
    /\ \A i \in 1..Len(d) :
          /\ Len(f.lines[i + 1]) = int(f.lines[1][2]) + 1
          /\ f.lines[i + 1][1] = LabelText(RawOf(d[i])[1])
          /\ \A j \in 2..Len(columns) : f.lines[i + 1][j] \in {"0", "1"}

\* C6: once prepare_data has returned, the first line of each output file is
\* the row count, the feature count and the encoded header with the label
\* column's name first; the feature count is the number of columns less one,
\* the number of indicator fields of every data line; every data line starts
\* with the label.
C6_HeaderAndLabelFirst ==
    Prepared =>
        /\ C6_FileOf(fs["train_output.csv"], df_train)
        /\ C6_FileOf(fs["test_output.csv"], df_test)

C6_Witness ==
    /\ Prepared
    /\ Len(df_train) >= 1 /\ Len(df_test) >= 1
    /\ Len(columns) = 4
    /\ fs["train_output.csv"].lines[1][2] = "3"

\* --------------------------------------------------------------- C7
\* A five-line file with exactly one line holding '?'.
OneSentinelLineOfFive ==
    /\ Len(file) = 5
    /\ Cardinality({i \in 1..5 : RowHas(file[i], {"?"})}) = 1

\* C7 as stated, and only of the files with no field read as missing: four
\* cleaned rows, three train rows and one test row, and both output files'
\* first lines begin with 4.
C7_AsStated ==
    (OneSentinelLineOfFive /\ \A i \in 1..5 : ~RowHas(file[i], DefaultNA)) =>
        /\ pc \notin BeforeClean => Len(df) = 4
        /\ pc \notin BeforeSplit => Len(df_train) = 3 /\ Len(df_test) = 1
        /\ Prepared => /\ fs["train_output.csv"].lines[1][1] = "4"
                       /\ fs["test_output.csv"].lines[1][1] = "4"

\* C7 amended: for a five-line file with exactly one line holding '?' and no
\* field read as missing, there are four cleaned rows, the split gives three
\* train rows and one test row, and the first line of train_output.csv begins
\* 3,<n>, and that of test_output.csv 1,<n>, with n the feature count.
C7_FiveLineScenario ==
    (OneSentinelLineOfFive /\ \A i \in 1..5 : ~RowHas(file[i], DefaultNA)) =>
        /\ pc \notin BeforeClean => Len(df) = 4
        /\ pc \notin BeforeSplit => Len(df_train) = 3 /\ Len(df_test) = 1
        /\ Prepared =>
              /\ SubSeq(fs["train_output.csv"].lines[1], 1, 2)
                    = <<"3", str(Len(columns) - 1)>>
              /\ SubSeq(fs["test_output.csv"].lines[1], 1, 2)
                    = <<"1", str(Len(columns) - 1)>>

C7_Witness ==
    /\ OneSentinelLineOfFive
    /\ \A i \in 1..5 : ~RowHas(file[i], DefaultNA)
    /\ Prepared
    /\ fs["train_output.csv"].lines[1][1] = "3"

\* --------------------------------------------------------------- C8
\* C8: if the clean step leaves no row, prepare_data does not get past the
\* split: it writes no output file and the script loads none.
C8_EmptyCleanFails ==
    (\A i \in 1..Len(file) : RowHas(file[i], {"?"})) =>
        /\ pc \in BeforeSplit
        /\ training_set = NotLoaded /\ test_set = NotLoaded
        /\ fs \in Directories

\* --------------------------------------------------------------- C9
\* A cleaned row whose raw label is l is in an output file with that label.
C9_Emitted(i) ==
    \/ \E j \in 1..Len(df_train) :
          /\ df_train[j].idx = i - 1
          /\ fs["train_output.csv"].lines[j + 1][1] = file[i][1]
    \/ \E j \in 1..Len(df_test) :
          /\ df_test[j].idx = i - 1
          /\ fs["test_output.csv"].lines[j + 1][1] = file[i][1]

C9_Kept(i) ==
    /\ pc \notin BeforeLabel /\ pc \in BeforeSplit =>
          \E j \in 1..Len(df) : /\ df[j].idx = i - 1
                                /\ df[j].row[1] = StrCell(file[i][1])
    /\ Prepared => C9_Emitted(i)

\* C9 as stated: a line whose label is neither 'p' nor 'e' and that holds no
\* '?' stays in the data frame with its label unchanged and is in an output
\* file with that label once prepare_data has returned.
C9_AsStated ==
    \A i \in 1..Len(file) :
        (file[i][1] \notin {"p", "e"} /\ ~RowHas(file[i], {"?"})) => C9_Kept(i)

\* C9 amended: the same of a line that moreover holds no field read_csv reads
\* as missing (such as the empty field).
C9_UnmappedLabelPassesThrough ==
    \A i \in 1..Len(file) :
        (/\ file[i][1] \notin {"p", "e"}
         /\ ~RowHas(file[i], {"?"} \cup DefaultNA)) => C9_Kept(i)

C9_Witness ==
    /\ Prepared
    /\ \E i \in 1..Len(file) :
          /\ file[i][1] = "x"
          /\ ~RowHas(file[i], {"?"} \cup DefaultNA)
          /\ C9_Emitted(i)

\* --------------------------------------------------------------- C10
C10_Files ==
    /\ Prepared =>
          /\ fs["train_output.csv"] = Owed(df_train)
          /\ fs["test_output.csv"] = Owed(df_test)
          /\ ~fs["train_temp.csv"].exists
          /\ ~fs["test_temp.csv"].exists
    /\ (training_set # NotLoaded \/ test_set # NotLoaded) => Prepared
    /\ pc \in {"load_test", "classifier"} =>
          training_set = load_csv_with_header(Owed(df_train))
    /\ pc = "classifier" => test_set = load_csv_with_header(Owed(df_test))

\* A step that puts text in an output file reads a complete temporary file; a
\* step that removes a temporary file leaves the output made from it complete.
C10_Step(temp, out, d) ==
    /\ (fs'[out] # fs[out] /\ fs'[out].lines # <<>>) =>
          /\ fs[temp] = Written(to_csv(d, columns))
          /\ fs'[out] = Owed(d)
    /\ (fs[temp].exists /\ ~fs'[temp].exists) => fs[out] = Owed(d)

\* C10: each temporary file is complete before it is read back, each output
\* file is written from the complete temporary file, each temporary file is
\* removed only after its output is written; when prepare_data has returned
\* both output files are complete, whatever the directory held before, no
\* temporary file is left, and the files are loaded only then.
C10_EmitOrder ==
    /\ []C10_Files
    /\ [][/\ C10_Step("train_temp.csv", "train_output.csv", df_train)
          /\ C10_Step("test_temp.csv", "test_output.csv", df_test)]_vars

C10_Witness ==
    /\ pc = "classifier"
    /\ Len(training_set.target) = 3
    /\ Len(test_set.target) = 1

====
